---- MODULE Spec2Model ----
(***************************************************************************)
(* Tabular temporal-difference control ("6. Temporal Difference            *)
(* Learning/algorithms.py"): zero_value, egreedy_policy, sarsa, qlearning  *)
(* and double_qlearning, run against a nondeterministic environment.       *)
(*                                                                         *)
(* Numbers that the program holds as floats are modelled as exact          *)
(* rationals <<n, d>> in lowest terms (d > 0).  Every value the model      *)
(* reaches is a dyadic rational of small exponent, which a float64 holds   *)
(* exactly, so the arithmetic below is the arithmetic of the program.      *)
(***************************************************************************)
EXTENDS Integers, Sequences, FiniteSets, TLC

(***************************************************************************)
(* Bounds of the model.                                                    *)
(***************************************************************************)
nS == 2
nA == 3
MaxEpisodes == 2
MaxEpLen == 2

States == 0 .. (nS - 1)
Actions == 0 .. (nA - 1)

(***************************************************************************)
(* Rational arithmetic.                                                    *)
(***************************************************************************)
Abs(x) == IF x < 0 THEN -x ELSE x

GCD[a \in Nat, b \in Nat] == IF b = 0 THEN a ELSE GCD[b, a % b]

Norm[n \in Int, d \in Nat] == <<n \div GCD[Abs(n), d], d \div GCD[Abs(n), d]>>

Rat == Int \X Nat
R(i) == <<i, 1>>
Zero == R(0)
Half == <<1, 2>>
RAdd(x, y) == Norm[x[1] * y[2] + y[1] * x[2], x[2] * y[2]]
RSub(x, y) == Norm[x[1] * y[2] - y[1] * x[2], x[2] * y[2]]
RMul(x, y) == Norm[x[1] * y[1], x[2] * y[2]]
RLess(x, y) == x[1] * y[2] < y[1] * x[2]
RLeq(x, y) == x[1] * y[2] <= y[1] * x[2]

(***************************************************************************)
(* Inputs: the arguments of a call and what the environment and the random *)
(* source may answer.                                                      *)
(***************************************************************************)
Algorithms == {"sarsa", "qlearning", "double_qlearning"}
\* <<alpha, gamma, epsilon>> of the calls made: the defaults' greedy variant
\* (the scenario of the documentation), an exploring call with discounting,
\* and a call whose learning rate lies outside (0, 1]
Calls == {<<Half, R(1), Zero>>, <<Half, Half, Half>>, <<<<3, 2>>, R(1), Zero>>}
NumEpisodes == 0 .. MaxEpisodes
Rewards == {-1, 1}
\* the states env.reset may return
StartStates == {0}
\* np.random.rand() is in [0, 1): both sides of every comparison the code makes
RandomDraws == {Zero, Half}

\* value of a variable that is not bound yet
None == -1

VARIABLES
    alg, alpha, gamma, epsilon, num_episodes,  \* the call
    envTerminates,    \* the environment ends every episode within MaxEpLen steps;
                      \* otherwise its step never returns done
    pc,               \* position in the called function
    t,                \* index of the for loop
    sum_rewards, Q, Q1, Q2,
    state, action, next_state, reward, done,
    result,           \* the table returned
    resets,           \* history: number of env.reset calls
    nSteps,           \* history: number of env.step calls
    doneCount,        \* history: number of env.step calls that returned done
    epSteps,          \* history: env.step calls since the last env.reset
    envState,         \* history: state last returned by env.reset / env.step
    envOpen,          \* history: an episode is running in the environment
    chosenFor,        \* history: state for which `action` was selected
    sentAction,       \* history: action passed to the last env.step
    boot              \* history: next_action of the last sarsa update

params == <<alg, alpha, gamma, epsilon, num_episodes, envTerminates>>
locals == <<t, sum_rewards, Q, Q1, Q2, state, action, next_state, reward, done, result>>
history == <<resets, nSteps, doneCount, epSteps, envState, envOpen, chosenFor, sentAction, boot>>
vars == <<params, pc, locals, history>>

(***************************************************************************)
(* zero_value, np.argmax and egreedy_policy.                               *)
(***************************************************************************)
zero_value == [s \in States |-> [a \in Actions |-> Zero]]

RECURSIVE ArgmaxScan(_, _, _)
ArgmaxScan(row, i, best) ==
    IF i >= Cardinality(DOMAIN row) THEN best
    ELSE ArgmaxScan(row, i + 1, IF RLess(row[best], row[i]) THEN i ELSE best)

RECURSIVE ArgmaxScanLast(_, _, _)
ArgmaxScanLast(row, i, best) ==
    IF i >= Cardinality(DOMAIN row) THEN best
    ELSE ArgmaxScanLast(row, i + 1, IF RLeq(row[best], row[i]) THEN i ELSE best)

\* variant: a later index replaces an equal earlier one
argmax_last(row) == ArgmaxScanLast(row, 1, 0)

\* np.argmax: index of the first occurrence of the maximum
argmax(row) == ArgmaxScan(row, 1, 0)

\* random: the np.random.rand() draw; choice: the np.random.choice draw
egreedy_policy(s, Qt, eps, random, choice) ==
    IF RLess(random, eps) THEN choice ELSE argmax(Qt[s])

\* Q1 + Q2 and (Q1 + Q2) / 2 on arrays
table_sum(A, B) == [s \in DOMAIN A |-> [a \in DOMAIN A[s] |-> RAdd(A[s][a], B[s][a])]]
table_avg(A, B) == [s \in DOMAIN A |-> [a \in DOMAIN A[s] |-> RMul(Half, RAdd(A[s][a], B[s][a]))]]

\* x + al * (r + ga * b - x), on values
td_value[x \in Rat, al \in Rat, r \in Rat, ga \in Rat, b \in Rat] ==
    RAdd(x, RMul(al, RSub(RAdd(r, RMul(ga, b)), x)))

\* variant: the increment is added to the whole row, Q[state] += ...
td_update_row(T, s, a, r, bootstrap) ==
    [T EXCEPT ![s] = [b \in DOMAIN T[s] |->
        RAdd(T[s][b], RSub(td_value[T[s][a], alpha, R(r), gamma, bootstrap], T[s][a]))]]

\* T[s][a] += alpha * (r + gamma * bootstrap - T[s][a])
td_update(T, s, a, r, bootstrap) ==
    [T EXCEPT ![s][a] = td_value[T[s][a], alpha, R(r), gamma, bootstrap]]

(***************************************************************************)
(* The call.                                                               *)
(***************************************************************************)
Init ==
    /\ alg \in Algorithms
    /\ \E c \in Calls : alpha = c[1] /\ gamma = c[2] /\ epsilon = c[3]
    /\ num_episodes \in NumEpisodes
    /\ envTerminates \in BOOLEAN
    /\ pc = "entry"
    /\ t = 0
    /\ sum_rewards = <<>>
    /\ Q = <<>> /\ Q1 = <<>> /\ Q2 = <<>>
    /\ state = None /\ action = None /\ next_state = None
    /\ reward = 0 /\ done = FALSE
    /\ result = <<>>
    /\ resets = 0 /\ nSteps = 0 /\ doneCount = 0 /\ epSteps = 0
    /\ envState = None /\ envOpen = FALSE
    /\ chosenFor = None /\ sentAction = None /\ boot = None

\* sum_rewards = []; Q = zero_value(env)   (Q1, Q2 in double_qlearning)
Entry ==
    /\ pc = "entry"
    /\ sum_rewards' = <<>>
    /\ IF alg = "double_qlearning"
       THEN Q1' = zero_value /\ Q2' = zero_value /\ Q' = Q
       ELSE Q' = zero_value /\ Q1' = Q1 /\ Q2' = Q2
    /\ pc' = "loop"
    /\ UNCHANGED <<params, t, state, action, next_state, reward, done, result, history>>

\* for t in range(num_episodes): sum_rewards.append(0); state = env.reset()
\* sarsa also selects the first action here
Reset ==
    /\ pc = "loop"
    /\ t < num_episodes
    /\ sum_rewards' = Append(sum_rewards, 0)
    /\ \E s0 \in StartStates :
        /\ state' = s0
        /\ envState' = s0
        /\ IF alg = "sarsa"
           THEN \E random \in RandomDraws, choice \in Actions :
                    /\ action' = egreedy_policy(s0, Q, epsilon, random, choice)
                    /\ chosenFor' = s0
                    /\ pc' = "step"
           ELSE /\ action' = action
                /\ chosenFor' = chosenFor
                /\ pc' = "choose"
    /\ resets' = resets + 1
    /\ epSteps' = 0
    /\ envOpen' = TRUE
    /\ UNCHANGED <<params, t, Q, Q1, Q2, next_state, reward, done, result,
                   nSteps, doneCount, sentAction, boot>>

\* variant: actions are selected from Q1 alone
behaviour_table_first == IF alg = "double_qlearning" THEN Q1 ELSE Q

\* the table double_qlearning selects its actions from
behaviour_table == IF alg = "double_qlearning" THEN table_sum(Q1, Q2) ELSE Q

\* qlearning, double_qlearning: action = egreedy_policy(state, Q, epsilon)
Choose ==
    /\ pc = "choose"
    /\ \E random \in RandomDraws, choice \in Actions :
        action' = egreedy_policy(state, behaviour_table, epsilon, random, choice)
    /\ chosenFor' = state
    /\ pc' = "step"
    /\ UNCHANGED <<params, t, sum_rewards, Q, Q1, Q2, state, next_state, reward, done,
                   result, resets, nSteps, doneCount, epSteps, envState, envOpen,
                   sentAction, boot>>

\* next_state, reward, done, _ = env.step(action)
EnvStep ==
    /\ pc = "step"
    /\ epSteps < MaxEpLen
    /\ \E ns \in States, r \in Rewards, d \in BOOLEAN :
        /\ IF envTerminates THEN (epSteps + 1 = MaxEpLen => d) ELSE ~d
        /\ next_state' = ns
        /\ reward' = r
        /\ done' = d
        /\ envState' = ns
        /\ envOpen' = ~d
        /\ doneCount' = IF d THEN doneCount + 1 ELSE doneCount
    /\ sentAction' = action
    /\ nSteps' = nSteps + 1
    /\ epSteps' = epSteps + 1
    /\ pc' = "update"
    /\ UNCHANGED <<params, t, sum_rewards, Q, Q1, Q2, state, action, result,
                   resets, chosenFor, boot>>

\* variant: every reward is appended to the trace
accumulate_append(sr, i, r) == Append(sr, r)

\* sum_rewards[t] += reward
accumulate(sr, i, r) == [sr EXCEPT ![i + 1] = @ + r]

\* variant: the state is not advanced
advance_state_stale(s, ns) == s

\* state = next_state
advance_state(s, ns) == ns

\* variant: the episode loop also ends on a step cap
episode_over_capped == done \/ epSteps >= 1

\* if done: break
episode_over == done

\* variant: the policy is consulted again after the update
sarsa_reselect(ns, na, Qn, random, choice) == egreedy_policy(ns, Qn, epsilon, random, choice)

\* sarsa: action = next_action
sarsa_carry(ns, na, Qn, random, choice) == na

\* sarsa: the entry of the table the update bootstraps from
sarsa_bootstrap(T, ns, na) == T[ns][na]

\* variant: the maximum is taken at the state left, not the state reached
qlearning_bootstrap_current(T, s, ns) == T[s][argmax(T[s])]

\* qlearning: next_action = np.argmax(Q[next_state]); Q[next_state][next_action]
qlearning_bootstrap(T, s, ns) == T[ns][argmax(T[ns])]

\* variant: the table updated also evaluates its own argmax
double_bootstrap_same(Tupd, Tother, ns) == Tupd[ns][argmax(Tupd[ns])]

\* double_qlearning: next_action from the table updated, its value from the other
double_bootstrap(Tupd, Tother, ns) == Tother[ns][argmax(Tupd[ns])]

\* the rest of the loop body after env.step, common to the three loops
Advance ==
    /\ state' = advance_state(state, next_state)
    /\ sum_rewards' = accumulate(sum_rewards, t, reward)
    /\ IF episode_over
       THEN /\ t' = t + 1
            /\ pc' = "loop"
       ELSE /\ t' = t
            /\ pc' = IF alg = "sarsa" THEN "step" ELSE "choose"
    /\ UNCHANGED <<params, next_state, reward, done, result, resets, nSteps, doneCount,
                   epSteps, envState, envOpen, sentAction>>

SarsaUpdate ==
    /\ pc = "update"
    /\ alg = "sarsa"
    /\ \E random \in RandomDraws, choice \in Actions :
        LET next_action == egreedy_policy(next_state, Q, epsilon, random, choice)
            Qn == td_update(Q, state, action, reward, sarsa_bootstrap(Q, next_state, next_action))
        IN  /\ Q' = Qn
            /\ action' = sarsa_carry(next_state, next_action, Qn, random, choice)
            /\ chosenFor' = next_state
            /\ boot' = next_action
    /\ Advance
    /\ UNCHANGED <<Q1, Q2>>

QlearningUpdate ==
    /\ pc = "update"
    /\ alg = "qlearning"
    /\ Q' = td_update(Q, state, action, reward, qlearning_bootstrap(Q, state, next_state))
    /\ Advance
    /\ UNCHANGED <<Q1, Q2, action, chosenFor, boot>>

DoubleUpdate ==
    /\ pc = "update"
    /\ alg = "double_qlearning"
    /\ \E random \in RandomDraws :
        IF RLess(random, Half)
        THEN /\ Q1' = td_update(Q1, state, action, reward, double_bootstrap(Q1, Q2, next_state))
             /\ Q2' = Q2
        ELSE /\ Q2' = td_update(Q2, state, action, reward, double_bootstrap(Q2, Q1, next_state))
             /\ Q1' = Q1
    /\ Advance
    /\ UNCHANGED <<Q, action, chosenFor, boot>>

\* the for loop is exhausted: return Q, sum_rewards   ((Q1 + Q2) / 2 in double_qlearning)
Return ==
    /\ pc = "loop"
    /\ t >= num_episodes
    /\ result' = IF alg = "double_qlearning" THEN table_avg(Q1, Q2) ELSE Q
    /\ pc' = "returned"
    /\ UNCHANGED <<params, t, sum_rewards, Q, Q1, Q2, state, action, next_state, reward,
                   done, history>>

Next ==
    \/ Entry
    \/ Reset
    \/ Choose
    \/ EnvStep
    \/ SarsaUpdate
    \/ QlearningUpdate
    \/ DoubleUpdate
    \/ Return

Spec == Init /\ [][Next]_vars

\* the scheduling of a single-threaded call: it runs while it has a step to take
LiveSpec == Init /\ [][Next]_vars /\ WF_vars(Next)

(***************************************************************************)
(* egreedy_policy on its own: one call on a table whose row for the state  *)
(* holds any values of PolicyValues.                                       *)
(***************************************************************************)
PolicyValues == {R(-1), Zero, R(1)}
PolicyEpsilons == {Zero, Half, R(1)}

PolicyInit ==
    /\ alg = "egreedy_policy"
    /\ alpha = Half /\ gamma = R(1)
    /\ epsilon \in PolicyEpsilons
    /\ num_episodes = 0
    /\ envTerminates = TRUE
    /\ pc = "policy"
    /\ t = 0
    /\ sum_rewards = <<>>
    /\ state \in States
    /\ \E row \in [Actions -> PolicyValues] : Q = [zero_value EXCEPT ![state] = row]
    /\ Q1 = <<>> /\ Q2 = <<>>
    /\ action = None /\ next_state = None
    /\ reward = 0 /\ done = FALSE
    /\ result = <<>>
    /\ resets = 0 /\ nSteps = 0 /\ doneCount = 0 /\ epSteps = 0
    /\ envState = None /\ envOpen = FALSE
    /\ chosenFor = None /\ sentAction = None /\ boot = None

PolicyCall ==
    /\ pc = "policy"
    /\ \E random \in RandomDraws, choice \in Actions :
        action' = egreedy_policy(state, Q, epsilon, random, choice)
    /\ chosenFor' = state
    /\ pc' = "policy_done"
    /\ UNCHANGED <<params, t, sum_rewards, Q, Q1, Q2, state, next_state, reward, done,
                   result, resets, nSteps, doneCount, epSteps, envState, envOpen,
                   sentAction, boot>>

PolicyNext == PolicyCall

PolicySpec == PolicyInit /\ [][PolicyNext]_vars

(***************************************************************************)
(* Properties.                                                             *)
(***************************************************************************)
\* the lowest index at which a row takes its greatest value
FirstMax(row) ==
    CHOOSE a \in DOMAIN row :
        /\ \A b \in DOMAIN row : RLeq(row[b], row[a])
        /\ \A b \in DOMAIN row : b < a => RLess(row[b], row[a])

\* the greatest value of a row
MaxOf(row) == CHOOSE v \in {row[a] : a \in DOMAIN row} : \A b \in DOMAIN row : RLeq(row[b], v)

\* x + alpha * (r + gamma * b - x)
Target(x, r, b) == RAdd(x, RMul(alpha, RSub(RAdd(R(r), RMul(gamma, b)), x)))

\* the step taken is the part of the loop body that follows env.step
UpdateStep == pc = "update" /\ pc' # "update"
\* the step taken is a call of env.step
StepCall == nSteps' # nSteps
\* the step taken is a call of env.reset
ResetCall == resets' # resets

ValidConfig ==
    /\ RLess(Zero, alpha) /\ RLeq(alpha, R(1))
    /\ RLeq(Zero, gamma) /\ RLeq(gamma, R(1))
    /\ RLeq(Zero, epsilon) /\ RLeq(epsilon, R(1))
    /\ num_episodes > 0

\* C1: the reward trace has one entry per env.reset made so far, and exactly
\* num_episodes entries when the call has returned
C1_TraceLength ==
    /\ Len(sum_rewards) = resets
    /\ pc = "returned" => Len(sum_rewards) = num_episodes

C1_Witness ==
    /\ pc = "returned" /\ num_episodes >= 2 /\ nSteps > num_episodes
    /\ Len(sum_rewards) = num_episodes

\* C2: a call with alpha outside (0, 1], gamma or epsilon outside [0, 1] or
\* num_episodes <= 0 makes no env.reset and no env.step, produces no table and
\* does not return
C2_InvalidRejected ==
    ~ValidConfig =>
        /\ resets = 0 /\ nSteps = 0
        /\ Q = <<>> /\ Q1 = <<>> /\ Q2 = <<>>
        /\ pc # "returned"

\* C3: against an environment that ends every episode the call eventually
\* returns; it returns only after num_episodes episodes, each ended by a done
\* answer of env.step; against an environment that never answers done it never
\* returns
C3_Termination ==
    /\ envTerminates => <>(pc = "returned")
    /\ [](pc = "returned" =>
            /\ resets = num_episodes
            /\ doneCount = num_episodes
            /\ ~envOpen)
    /\ []((~envTerminates /\ num_episodes > 0) => pc # "returned")

C3_Witness ==
    /\ pc = "returned" /\ num_episodes >= 2 /\ nSteps > num_episodes
    /\ doneCount = num_episodes

\* C4: with epsilon = 0 egreedy_policy returns the lowest index of the row's
\* maximum, whatever the random draws are
C4_GreedyFirstMax ==
    (pc = "policy_done" /\ epsilon = Zero) =>
        /\ \A b \in Actions : RLeq(Q[state][b], Q[state][action])
        /\ \A b \in Actions : b < action => RLess(Q[state][b], Q[state][action])

C4_Witness ==
    /\ pc = "policy_done" /\ epsilon = Zero
    /\ action = FirstMax(Q[state])
    /\ \E b \in Actions : b > action /\ Q[state][b] = Q[state][action]

\* C5: every qlearning update, the one of a done step included, sets
\* table[s,a] to table[s,a] + alpha * (r + gamma * max table[s'] - table[s,a])
\* with the maximum taken over the table before the update; in the 2-state
\* scenario one episode leaves table[0,0] = 1/2
C5_QlearningUpdate ==
    [][(alg = "qlearning" /\ UpdateStep) =>
        /\ Q' = [Q EXCEPT ![state][action] =
                    Target(Q[state][action], reward, MaxOf(Q[next_state]))]
        /\ (/\ alpha = Half /\ gamma = R(1) /\ epsilon = Zero
            /\ nSteps = 1 /\ state = 0 /\ action = 0
            /\ reward = 1 /\ next_state = 1 /\ done) => Q'[0][0] = Half]_vars

C5_Witness ==
    /\ alg = "qlearning" /\ alpha = Half /\ gamma = R(1) /\ epsilon = Zero
    /\ pc = "loop" /\ t = 1 /\ nSteps = 1
    /\ sentAction = 0 /\ reward = 1 /\ next_state = 1 /\ done
    /\ Q[0][0] = Half

\* C6: a sarsa update bootstraps from table[next_state, next_action], and the
\* next env.step of the episode is passed that same next_action
C6_SarsaOnPolicy ==
    [][/\ (alg = "sarsa" /\ UpdateStep) =>
            /\ Q' = [Q EXCEPT ![state][action] =
                        Target(Q[state][action], reward, Q[next_state][boot'])]
            /\ action' = boot'
       /\ (alg = "sarsa" /\ StepCall /\ epSteps > 0) => sentAction' = boot]_vars

\* the second step of an episode is taken with the action the update used,
\* although the policy would now select another one
C6_Witness ==
    /\ alg = "sarsa" /\ epsilon = Zero
    /\ pc = "update" /\ epSteps >= 2
    /\ sentAction = boot
    /\ sentAction # FirstMax(Q[state])

\* table A after entry (state, action) moved towards
\* reward + gamma * B[next_state, first argmax of A[next_state]]
DoubleTarget(A, B) ==
    [A EXCEPT ![state][action] =
        Target(A[state][action], reward, B[next_state][FirstMax(A[next_state])])]

\* C7: a double_qlearning update changes one table only: the table updated
\* moves entry (s, a) towards r + gamma * other[s', first argmax of updated[s']]
C7_DoubleUpdate ==
    [][(alg = "double_qlearning" /\ UpdateStep) =>
        \/ Q1' = DoubleTarget(Q1, Q2) /\ Q2' = Q2
        \/ Q2' = DoubleTarget(Q2, Q1) /\ Q1' = Q1]_vars

C7_Witness ==
    /\ alg = "double_qlearning" /\ pc = "choose" /\ nSteps >= 2
    /\ Q1 # zero_value /\ Q2 # zero_value
    /\ \E s \in States : FirstMax(Q1[s]) # FirstMax(Q2[s])

\* row s of Q1 + Q2
SumRow(s) == [a \in Actions |-> RAdd(Q1[s][a], Q2[s][a])]

\* C8: with epsilon = 0 the action double_qlearning executes in state s is the
\* first argmax of row s of Q1 + Q2, also where neither table alone has it
C8_ActsOnSum ==
    (alg = "double_qlearning" /\ epsilon = Zero /\ pc = "step") =>
        action = FirstMax(SumRow(state))

C8_Witness ==
    /\ alg = "double_qlearning" /\ epsilon = Zero /\ pc = "step"
    /\ action = FirstMax(SumRow(state))
    /\ action # FirstMax(Q1[state])
    /\ action # FirstMax(Q2[state])

\* tables A and B agree everywhere but at entry (state, action)
OnlyEntry(A, B) ==
    \A s \in States, a \in Actions : (s # state \/ a # action) => B[s][a] = A[s][a]

Shape(A) == DOMAIN A = States /\ \A s \in States : DOMAIN A[s] = Actions

\* C9: an update changes only entry (state, action), of the one table in sarsa
\* and qlearning and of one of the two tables in double_qlearning; no other
\* step changes a table, and every table keeps the shape nS x nA
C9_Frame ==
    [][/\ (UpdateStep /\ alg # "double_qlearning") =>
            OnlyEntry(Q, Q') /\ Q1' = Q1 /\ Q2' = Q2
       /\ (UpdateStep /\ alg = "double_qlearning") =>
            /\ Q' = Q
            /\ Q1' = Q1 \/ Q2' = Q2
            /\ OnlyEntry(Q1, Q1') /\ OnlyEntry(Q2, Q2')
       /\ (~UpdateStep /\ pc # "entry") => (Q' = Q /\ Q1' = Q1 /\ Q2' = Q2)
       /\ pc # "entry" =>
            IF alg = "double_qlearning" THEN Shape(Q1') /\ Shape(Q2') ELSE Shape(Q')]_vars

C9_Witness ==
    /\ alg = "sarsa" /\ pc = "step" /\ nSteps = 1
    /\ Cardinality({sa \in States \X Actions : Q[sa[1]][sa[2]] # Zero}) = 1

\* C10: env.reset is called once per episode, only when no episode is running,
\* and num_episodes times by the time the call returns; env.step is called only
\* while an episode is running, with an action of 0 .. nA-1 selected for the
\* state the environment last returned
C10_Protocol ==
    /\ [](resets = doneCount + (IF envOpen THEN 1 ELSE 0))
    /\ [](resets <= num_episodes)
    /\ [](pc = "returned" => resets = num_episodes)
    /\ [][/\ ResetCall => ~envOpen
          /\ StepCall => /\ envOpen
                         /\ sentAction' \in Actions
                         /\ chosenFor = envState]_vars

C10_Witness ==
    /\ pc = "returned" /\ resets >= 2 /\ nSteps > resets
    /\ ~envOpen
====
